---- MODULE Spec2Model ----
(***************************************************************************)
(* Tact host side: the touch-event wire protocol of TactHostSimulator      *)
(* (host-app/tact_host_simulator.py), its four gestures, and the connect   *)
(* handshake of TactValidator (tests/system_validation.py).                *)
(*                                                                         *)
(* Numbers.  A Python float is modelled by the exact rational <<n, d>>     *)
(* (d > 0) it stands for.  Intensities and depths given by a caller are    *)
(* thousandths (600 is 0.6), durations are hundredths of a second.  The    *)
(* depth field of a wire line, printed by the code with "{:.2f}", is the   *)
(* integer number of hundredths it shows ("0.75" is 75).                   *)
(***************************************************************************)
EXTENDS Integers, Sequences, FiniteSets, TLC

\* ---- bounds of the model ------------------------------------------------
MaxSteps  == 4      \* largest tick count of a stroke or squeeze
MaxFaults == 1      \* serial writes that raise within one call
MaxValFaults == 2   \* serial writes that raise within one validation run

\* ---- program constants --------------------------------------------------
num_motors     == 4       \* self.num_motors
HandshakePolls == 10      \* for _ in range(10)
UpdateRate     == 20      \* int(duration * 20)
PatEvents      == 4       \* gesture_pat: four send_touch_event calls
PokeEvents     == 2       \* gesture_poke: two send_touch_event calls
TickMs         == 50      \* time.sleep(0.05) after each tick of stroke / squeeze
PatPauseMs     == 100     \* time.sleep(0.1) between the events of a pat
PokePauseMs    == 50      \* time.sleep(0.05) between the events of a poke

MotorCount     == 4       \* test_motor_response: for motor_id in range(4)
MotorPassMin   == 3       \* test_motor_response: success_count >= 3
command_count  == 20      \* test_timing_performance: command_count = 20
TimingPauseMs  == 50      \* test_timing_performance: time.sleep(0.05)
TimingToleranceMs == 500  \* test_timing_performance: ... < 0.5

READY == "Tact Haptic Controller Ready"

\* test_basic_communication: test_commands (depths in thousandths)
test_commands ==
    << <<0, 500, TRUE>>, <<1, 300, FALSE>>, <<2, 0, FALSE>>, <<3, 800, TRUE>> >>

\* test_first_contact_detection: test_sequences
test_sequences ==
    << << <<0, 600, TRUE>>,  <<0, 600, FALSE>>, <<0, 0, FALSE>> >>,
       << <<1, 0, FALSE>>,   <<1, 500, TRUE>>,  <<1, 0, FALSE>> >>,
       << <<2, 400, FALSE>>, <<2, 800, FALSE>>, <<2, 0, FALSE>> >> >>

\* test_intensity_scaling: intensity_levels, on motor 1
intensity_levels == <<100, 300, 500, 700, 900>>

\* test_error_handling: invalid_commands (without the trailing newline)
invalid_commands == <<"5,0.5,1", "0,1.5,1", "0,-0.1,1", "abc,0.5,1", "0,0.5", "">>

\* the same lines as a reader of "id,depth,flag" takes them: id, depth in
\* hundredths, flag; <<-1, 0, 0>> stands for a line that names no actuator
invalid_fields == << <<5, 50, 1>>, <<0, 150, 1>>, <<0, -10, 1>>,
                     <<-1, 0, 0>>, <<-1, 0, 0>>, <<-1, 0, 0>> >>

\* find_arduino_port: common_ports
common_ports == <<"/dev/ttyACM0", "/dev/ttyUSB0", "COM3", "COM4">>

\* run_full_validation: tests, by the name each logs its result under
Stages == <<"Basic Communication", "Motor Response", "First Contact Detection",
            "Intensity Scaling", "Timing Performance", "Error Handling">>

\* ---- inputs -------------------------------------------------------------
Durations    == {4} \cup {5 * k : k \in 0 .. MaxSteps}  \* hundredths of a second
Intensities  == {-500, 0, 700, 1500}  \* thousandths
PatIntensities == Intensities \cup {800}  \* gesture_pat, with its default 0.8
Depths       == {-100, 0, 4, 125, 754, 756, 1000, 1001, 1500}  \* thousandths
ActuatorIds  == -1 .. num_motors                   \* -1 and 4 are invalid
ReadOutcomes == {"nothing", READY, "other", "raise"}
\* comports(): for each listed device, whether its description holds 'Arduino'
\* or 'USB'
Listings     == {<<>>, <<FALSE, TRUE, TRUE>>}
\* the entries of common_ports that serial.Serial(...) can open
OpenableSets == {{}, {2}, {2, 4}}
SendLatencies == {2}          \* milliseconds one send_touch_event takes (the
                              \* write and the print take time), per gesture
Latencies    == {0, 24, 25}   \* milliseconds one send_command takes, per run of
                              \* the timing stage

VARIABLES
    prog,               \* which script runs: "simulator" or "validator"
    port,               \* simulator: self.port, "None" or "set"
    serial_connection,  \* simulator: "None", "open" or "closed"
    is_connected,       \* simulator: self.is_connected
    pc,                 \* simulator: where the running call stands
    polls,              \* simulator: handshake polls done by connect
    banner,             \* simulator: a ready banner was read by connect
    g,                  \* simulator: frame of the running gesture
    sent,               \* send_touch_event calls of the current call window
    wire,               \* lines written to the serial link in that window
    faults,             \* writes that raised in that window
    result,             \* how the last simulator call ended
    v_serial,           \* validator: "None" or "open"
    v_pc,               \* validator: where the run stands
    v_polls,            \* validator: handshake polls done
    v_ready_found,      \* validator: ready_found of connect
    v_results,          \* validator: self.test_results
    v_result,           \* validator: what connect returned
    v_f,                \* validator: locals of the running test_* stage
    v_sent,             \* validator: serial writes attempted by that stage
    v_faults,           \* validator: writes that raised in the run
    v_passed,           \* validator: passed_tests of run_full_validation
    v_run,              \* validator: what run_full_validation returned
    v_closed,           \* validator: disconnect was called last
    v_link,             \* validator: per actuator, what the link last carried
    v_probe             \* validator: port lookup of the running connect

simVars == <<port, serial_connection, is_connected, pc, polls, banner, g, sent,
             wire, faults, result>>
valVars == <<v_serial, v_pc, v_polls, v_ready_found, v_results, v_result,
             v_f, v_sent, v_faults, v_passed, v_run, v_closed, v_link,
             v_probe>>
vars    == <<prog, port, serial_connection, is_connected, pc, polls, banner, g, sent,
             wire, faults, result, v_serial, v_pc, v_polls, v_ready_found,
             v_results, v_result, v_f, v_sent, v_faults, v_passed, v_run,
             v_closed, v_link, v_probe>>

\* ---- float arithmetic on exact rationals --------------------------------
Abs(n) == IF n < 0 THEN -n ELSE n

Rat(n, d) == <<n, d>>

RatLess(x, y) == x[1] * y[2] < y[1] * x[2]

RatEq(x, y) == x[1] * y[2] = y[1] * x[2]

\* ClampDepth without the upper bound: max(0.0, penetration_depth)
ClampDepth_NoUpperBound(x) ==
    IF RatLess(x, Rat(0, 1)) THEN Rat(0, 1) ELSE x

\* max(0.0, min(1.0, penetration_depth))
ClampDepth(x) ==
    LET lo == IF RatLess(Rat(1, 1), x) THEN Rat(1, 1) ELSE x
    IN  IF RatLess(lo, Rat(0, 1)) THEN Rat(0, 1) ELSE lo

\* FormatCents cutting the third decimal off instead of rounding
FormatCents_Truncates(x) == {(100 * x[1]) \div x[2]}

\* "{:.2f}": the hundredths nearest to x.  On an exact decimal tie the digit
\* printed depends on the rounding error of the double, which the rational does
\* not carry: both neighbours are possible outcomes.
FormatCents(x) ==
    LET q == (100 * x[1]) \div x[2]
        r == (100 * x[1]) % x[2]
    IN  IF 2 * r < x[2] THEN {q}
        ELSE IF 2 * r > x[2] THEN {q + 1}
        ELSE {q, q + 1}

\* int(duration * 20) for a duration in hundredths of a second
StepsOf(duration) == (duration * UpdateRate) \div 100

\* abs(math.sin(phase)) for phase = pi * a / b, by Bhaskara's rational
\* approximation (exact at 0, pi/6, pi/2, 5pi/6; error below 0.002 elsewhere)
AbsSin(a, b) ==
    LET t == a % b
        p == t * (b - t)
    IN  Rat(16 * p, 5 * b * b - 4 * p)

\* gesture_stroke: depth = max(0, intensity * (0.5 + 0.5 * abs(sin(motor_phase))))
\* with motor_phase = (step / steps) * 2 pi + motor_id * pi / 2
StrokeDepth(step, steps, motor_id, intensity) ==
    LET s == AbsSin(4 * step + motor_id * steps, 2 * steps)
        d == Rat(intensity * (s[2] + s[1]), 2000 * s[2])
    IN  IF d[1] < 0 THEN Rat(0, 1) ELSE d

\* SqueezeIntensity falling from one tick earlier: (steps - 1 - step) / (steps // 2)
SqueezeIntensity_FallsEarly(step, steps, max_intensity) ==
    IF step < steps \div 2
    THEN Rat(step * max_intensity, (steps \div 2) * 1000)
    ELSE Rat((steps - 1 - step) * max_intensity, (steps \div 2) * 1000)

\* gesture_squeeze: the triangular intensity of one tick (steps // 2 > 0)
SqueezeIntensity(step, steps, max_intensity) ==
    IF step < steps \div 2
    THEN Rat(step * max_intensity, (steps \div 2) * 1000)
    ELSE Rat((steps - step) * max_intensity, (steps \div 2) * 1000)

\* PatDepth with the third pulse at 0.5 i instead of 0.4 i
PatDepth_WrongDecay(idx, intensity) ==
    CASE idx = 0 -> Rat(intensity, 1000)
      [] idx = 1 -> Rat(intensity * 7, 10000)
      [] idx = 2 -> Rat(intensity * 5, 10000)
      [] OTHER   -> Rat(0, 1)

\* gesture_pat: the four depths intensity, 0.7 i, 0.4 i, 0.0
PatDepth(idx, intensity) ==
    CASE idx = 0 -> Rat(intensity, 1000)
      [] idx = 1 -> Rat(intensity * 7, 10000)
      [] idx = 2 -> Rat(intensity * 4, 10000)
      [] OTHER   -> Rat(0, 1)

\* a poke that keeps its depth on the second event
PokeDepth_HoldsContact(idx, intensity) ==
    Rat(intensity, 1000)

\* gesture_poke: intensity, then 0.0
PokeDepth(idx, intensity) ==
    IF idx = 0 THEN Rat(intensity, 1000) ELSE Rat(0, 1)

\* ---- port lookup -----------------------------------------------------------
\* what find_arduino_port returns: None, the device of listed entry k, or
\* common_ports[k]
NoPort        == [kind |-> "none", k |-> 0]
ListedPort(k) == [kind |-> "listed", k |-> k]
CommonPort(k) == [kind |-> "path", k |-> k]

Min(S) == CHOOSE k \in S : \A l \in S : k <= l

Matches(listing) == {k \in DOMAIN listing : listing[k]}

\* "for port in common_ports: try: test_serial = serial.Serial(...);
\* test_serial.close(); return port; except: continue"
FallbackProbes(openable) ==
    [k \in 1 .. (IF openable = {} THEN Len(common_ports) ELSE Min(openable)) |->
        [path |-> common_ports[k], opened |-> k \in openable,
         closed |-> k \in openable]]

\* TactHostSimulator.find_arduino_port: the first listed device whose
\* description matches, else the first common port that opens, else None
SimFindPort(listing, openable) ==
    IF Matches(listing) # {}
    THEN [asked |-> TRUE, listing |-> listing, openable |-> openable,
          probes |-> <<>>, found |-> ListedPort(Min(Matches(listing)))]
    ELSE [asked |-> TRUE, listing |-> listing, openable |-> openable,
          probes |-> FallbackProbes(openable),
          found |-> IF openable = {} THEN NoPort
                    ELSE CommonPort(Min(openable))]

\* TactValidator.find_arduino_port: the first listed device whose description
\* matches, else None
ValFindPort(listing, openable) ==
    [asked |-> TRUE, listing |-> listing, openable |-> openable, probes |-> <<>>,
     found |-> IF Matches(listing) # {} THEN ListedPort(Min(Matches(listing)))
               ELSE NoPort]

\* ---- send_touch_event ---------------------------------------------------
Line(actuator_id, cents, first_contact) ==
    [id |-> actuator_id, depth |-> cents, flag |-> IF first_contact THEN 1 ELSE 0]

\* at: the milliseconds the running gesture has slept before the call
Call(tick, rel, actuator_id, depth, first_contact, ret) ==
    [tick |-> tick, rel |-> rel, id |-> actuator_id, depth |-> depth,
     fc |-> first_contact, ret |-> ret,
     at |-> IF pc = "idle" THEN 0 ELSE g.slept]

ValidActuator(actuator_id) == actuator_id >= 0 /\ actuator_id < num_motors

\* SendTouchEvent clamping an out-of-range actuator id into range
SendTouchEvent_ClampsId(s, w, f, tick, rel, actuator_id, penetration_depth, first_contact) ==
    LET id == IF actuator_id < 0 THEN 0
              ELSE IF actuator_id >= num_motors THEN num_motors - 1
              ELSE actuator_id
    IN  IF ~is_connected
        THEN /\ sent' = Append(s, Call(tick, rel, actuator_id, penetration_depth,
                                       first_contact, FALSE))
             /\ wire' = w
             /\ faults' = f
        ELSE \E cents \in FormatCents(ClampDepth(penetration_depth)) :
                  /\ wire' = Append(w, Line(id, cents, first_contact))
                  /\ sent' = Append(s, Call(tick, rel, actuator_id,
                                            penetration_depth, first_contact, TRUE))
                  /\ faults' = f

\* One call of send_touch_event appended to the window (s, w, f).  tick and
\* rel say which tick of a gesture issued the call (rel: a release event).
\* send_touch_event writing a second time after a write that raised
SendTouchEvent_Retries(s, w, f, tick, rel, actuator_id, penetration_depth, first_contact) ==
    IF ~is_connected \/ ~ValidActuator(actuator_id)
    THEN /\ sent' = Append(s, Call(tick, rel, actuator_id, penetration_depth,
                                   first_contact, FALSE))
         /\ wire' = w
         /\ faults' = f
    ELSE \E cents \in FormatCents(ClampDepth(penetration_depth)) :
            /\ serial_connection = "open"
            /\ wire' = Append(w, Line(actuator_id, cents, first_contact))
            /\ sent' = Append(s, Call(tick, rel, actuator_id,
                                      penetration_depth, first_contact, TRUE))
            /\ \/ faults' = f
               \/ f < MaxFaults /\ faults' = f + 1

SendTouchEvent(s, w, f, tick, rel, actuator_id, penetration_depth, first_contact) ==
    IF ~is_connected \/ ~ValidActuator(actuator_id)
    THEN /\ sent' = Append(s, Call(tick, rel, actuator_id, penetration_depth,
                                   first_contact, FALSE))
         /\ wire' = w
         /\ faults' = f
    ELSE \/ \E cents \in FormatCents(ClampDepth(penetration_depth)) :
              /\ serial_connection = "open"
              /\ wire' = Append(w, Line(actuator_id, cents, first_contact))
              /\ sent' = Append(s, Call(tick, rel, actuator_id,
                                        penetration_depth, first_contact, TRUE))
              /\ faults' = f
         \/ /\ f < MaxFaults \/ serial_connection # "open"
            /\ wire' = w
            /\ sent' = Append(s, Call(tick, rel, actuator_id,
                                      penetration_depth, first_contact, FALSE))
            /\ faults' = IF f < MaxFaults THEN f + 1 ELSE f

\* locals of a test_* stage: i, j loop positions, count = success_count,
\* flags = motor_results, lat / elapsed for the timing measurement, done and
\* passed once the stage has returned
\* ok = the stage's own flag (recovery_ok; the first intensity send worked)
NoStage == [stage |-> "none", i |-> 0, j |-> 0, count |-> 0, flags |-> <<>>,
            ok |-> TRUE, lat |-> 0, elapsed |-> 0, done |-> FALSE,
            passed |-> FALSE]

\* the link as run_full_validation finds it: nothing written for any actuator,
\* no first contact waiting for its release
NoLink == [a \in 0 .. num_motors - 1 |->
              [seen |-> FALSE, depth |-> 0, pending |-> FALSE]]

\* port lookup of a connect call: asked = find_arduino_port was called, with
\* the listing and the openable fallback paths it met, the probes it made (each
\* a path with whether it opened and whether it was closed again) and the port
\* it returned
NoProbe == [asked |-> FALSE, listing |-> <<>>, openable |-> {}, probes |-> <<>>,
            found |-> NoPort]

\* slept = milliseconds spent in time.sleep; lat = milliseconds one
\* send_touch_event of a stroke or squeeze takes, busy = milliseconds spent in
\* them so far;
\* lookup = the port lookup of connect; overlap = connections to the port that
\* were still open when connect opened a new one; wrote / stray = the firmware
\* check wrote its test command / returned without closing its connection
NoFrame == [kind |-> "none", steps |-> 0, intensity |-> 0, motor |-> 0,
            step |-> 0, m |-> 0, slept |-> 0, lat |-> 0, busy |-> 0,
            lookup |-> NoProbe, opened |-> FALSE, overlap |-> 0,
            wrote |-> FALSE, stray |-> FALSE]

Init ==
    /\ prog \in {"simulator", "validator"}
    /\ port = "None"
    /\ serial_connection = "None"
    /\ is_connected = FALSE
    /\ pc = "idle"
    /\ polls = 0
    /\ banner = FALSE
    /\ g = NoFrame
    /\ sent = <<>>
    /\ wire = <<>>
    /\ faults = 0
    /\ result = "none"
    /\ v_serial = "None"
    /\ v_pc = "idle"
    /\ v_polls = 0
    /\ v_ready_found = FALSE
    /\ v_results = <<>>
    /\ v_result = "none"
    /\ v_f = NoStage
    /\ v_sent = <<>>
    /\ v_faults = 0
    /\ v_passed = 0
    /\ v_run = "none"
    /\ v_closed = FALSE
    /\ v_link = NoLink
    /\ v_probe = NoProbe

\* ---- quick_start.check_firmware ------------------------------------------
\* Called once, before run_basic_test builds its TactHostSimulator: opens the
\* port, writes b"0,0.5,1\n", reads what came back and closes.  An error
\* anywhere is caught and answered with True; after the open it skips
\* ser.close(), and the connection stays open until the object is collected.
CheckFirmware ==
    /\ prog = "simulator"
    /\ pc = "idle"
    /\ g.kind = "none"
    /\ \E at \in {"open_error", "write_error", "read_error", "silent", "answer"} :
          /\ g' = [NoFrame EXCEPT
                      !.kind = "check_firmware",
                      !.wrote = at \in {"read_error", "silent", "answer"},
                      !.stray = at \in {"write_error", "read_error"}]
          /\ result' = IF at = "silent" THEN "False" ELSE "True"
    /\ UNCHANGED <<prog, port, serial_connection, is_connected, pc, polls, banner,
                   sent, wire, faults, valVars>>

\* ---- TactHostSimulator.connect ------------------------------------------
\* Port lookup (when self.port is None) and serial.Serial(...): no port, an open
\* error, or the port opens and is_connected is set before the handshake
\* polls.  The connection a previous connect left open is not closed first.
SimConnect ==
    /\ prog = "simulator"
    /\ pc = "idle"
    /\ \E listing \in IF port = "None" THEN Listings ELSE {<<>>},
          openable \in IF port = "None" THEN OpenableSets ELSE {{}},
          outcome \in {"open_error", "opened"},
          collected \in IF g.stray THEN BOOLEAN ELSE {TRUE} :
          LET lookup == IF port = "None" THEN SimFindPort(listing, openable)
                        ELSE NoProbe
              known  == port # "None" \/ lookup.found # NoPort
              others == (IF serial_connection = "open" THEN 1 ELSE 0)
                        + (IF g.stray /\ ~collected THEN 1 ELSE 0)
          IN  /\ port' = IF known THEN "set" ELSE "None"
              /\ IF known /\ outcome = "opened"
                 THEN /\ serial_connection' = "open"
                      /\ is_connected' = TRUE
                      /\ pc' = "handshake"
                      /\ result' = "none"
                 ELSE /\ pc' = "idle"
                      /\ result' = "False"
                      /\ UNCHANGED <<serial_connection, is_connected>>
              /\ g' = [NoFrame EXCEPT
                          !.kind = "connect",
                          !.lookup = lookup,
                          !.opened = known /\ outcome = "opened",
                          !.overlap = IF known /\ outcome = "opened"
                                      THEN others ELSE 0]
    /\ polls' = 0
    /\ banner' = FALSE
    /\ sent' = <<>>
    /\ wire' = <<>>
    /\ faults' = 0
    /\ UNCHANGED <<prog, valVars>>

\* SimHandshakePoll reporting success only when the ready banner was read
SimHandshakePoll_RequiresBanner ==
    /\ prog = "simulator"
    /\ pc = "handshake"
    /\ \E r \in ReadOutcomes :
          IF r = "raise"
          THEN /\ pc' = "idle"
               /\ result' = "False"
               /\ UNCHANGED <<polls, banner>>
          ELSE /\ polls' = polls + 1
               /\ banner' = (banner \/ r = READY)
               /\ pc' = IF polls + 1 = HandshakePolls THEN "idle" ELSE "handshake"
               /\ result' = IF polls + 1 < HandshakePolls THEN "none"
                             ELSE IF banner' THEN "True" ELSE "False"
    /\ UNCHANGED <<serial_connection, is_connected, g, sent, wire, faults>>
    /\ UNCHANGED <<prog, port, valVars>>

\* One pass of "for _ in range(10)": a waiting line is read and printed; a read
\* or decode error leaves through "except" with False.
SimHandshakePoll ==
    /\ prog = "simulator"
    /\ pc = "handshake"
    /\ \E r \in ReadOutcomes :
          IF r = "raise"
          THEN /\ pc' = "idle"
               /\ result' = "False"
               /\ UNCHANGED <<polls, banner>>
          ELSE /\ polls' = polls + 1
               /\ banner' = (banner \/ r = READY)
               /\ pc' = IF polls + 1 = HandshakePolls THEN "idle" ELSE "handshake"
               /\ result' = IF polls + 1 = HandshakePolls THEN "True" ELSE "none"
    /\ UNCHANGED <<serial_connection, is_connected, g, sent, wire, faults>>
    /\ UNCHANGED <<prog, port, valVars>>

\* a disconnect that closes the port but leaves is_connected set
SimDisconnect_KeepsFlag ==
    /\ prog = "simulator"
    /\ pc \in {"idle", "interrupted"}
    /\ IF serial_connection # "None"
       THEN /\ serial_connection' = "closed"
            /\ UNCHANGED is_connected
       ELSE UNCHANGED <<serial_connection, is_connected>>
    /\ result' = "None"
    /\ polls' = 0
    /\ banner' = FALSE
    /\ g' = [NoFrame EXCEPT !.kind = "disconnect"]
    /\ sent' = <<>>
    /\ wire' = <<>>
    /\ faults' = 0
    /\ UNCHANGED <<prog, port, pc, valVars>>

\* TactHostSimulator.disconnect, called between calls or, by main's "finally",
\* after a KeyboardInterrupt
SimDisconnect ==
    /\ prog = "simulator"
    /\ pc \in {"idle", "interrupted"}
    /\ IF serial_connection # "None"
       THEN /\ serial_connection' = "closed"
            /\ is_connected' = FALSE
       ELSE UNCHANGED <<serial_connection, is_connected>>
    /\ result' = "None"
    /\ polls' = 0
    /\ banner' = FALSE
    /\ g' = [NoFrame EXCEPT !.kind = "disconnect"]
    /\ sent' = <<>>
    /\ wire' = <<>>
    /\ faults' = 0
    /\ UNCHANGED <<prog, port, pc, valVars>>

\* A direct call of send_touch_event (interactive "manual" command)
ManualSend ==
    /\ prog = "simulator"
    /\ pc = "idle"
    /\ \E id \in ActuatorIds, d \in Depths, fc \in BOOLEAN :
          /\ SendTouchEvent(<<>>, <<>>, 0, 0, FALSE, id, Rat(d, 1000), fc)
          /\ g' = [NoFrame EXCEPT !.kind = "manual", !.motor = id, !.intensity = d]
    /\ result' = IF sent'[1].ret THEN "True" ELSE "False"
    /\ polls' = 0
    /\ banner' = FALSE
    /\ UNCHANGED <<prog, port, serial_connection, is_connected, pc, valVars>>

\* ---- gestures -----------------------------------------------------------
\* A gesture call begins: its frame is set up and a new call window opens.
BeginGesture(frame, at) ==
    /\ prog = "simulator"
    /\ pc = "idle"
    /\ g' = frame
    /\ pc' = at
    /\ sent' = <<>>
    /\ wire' = <<>>
    /\ faults' = 0
    /\ result' = "none"
    /\ polls' = 0
    /\ banner' = FALSE
    /\ UNCHANGED <<prog, port, serial_connection, is_connected, valVars>>

\* The position after the event of (g.step, g.m) in a "for step / for motor_id"
\* double loop: the next motor, or time.sleep(0.05) and the next tick or the
\* release loop.
AdvanceTick(body) ==
    IF g.m + 1 < num_motors
    THEN /\ g' = [g EXCEPT !.m = g.m + 1, !.busy = g.busy + g.lat]
         /\ pc' = body
    ELSE IF g.step + 1 < g.steps
    THEN /\ g' = [g EXCEPT !.m = 0, !.step = g.step + 1, !.busy = g.busy + g.lat,
                           !.slept = g.slept + TickMs]
         /\ pc' = body
    ELSE /\ g' = [g EXCEPT !.m = 0, !.step = g.steps, !.busy = g.busy + g.lat,
                           !.slept = g.slept + TickMs]
         /\ pc' = "release"

\* gesture_stroke: steps = int(duration * 20)
StartStroke ==
    \E duration \in Durations, intensity \in Intensities, lat \in SendLatencies :
        BeginGesture([NoFrame EXCEPT !.kind = "stroke", !.steps = StepsOf(duration),
                                     !.intensity = intensity, !.lat = lat],
                     IF StepsOf(duration) > 0 THEN "stroke" ELSE "release")

\* StrokeSend flagging first contact on every actuator of tick 0
StrokeSend_FirstContactPerTick ==
    /\ prog = "simulator"
    /\ pc = "stroke"
    /\ SendTouchEvent(sent, wire, faults, g.step, FALSE, g.m,
                      StrokeDepth(g.step, g.steps, g.m, g.intensity),
                      g.step = 0)
    /\ AdvanceTick("stroke")
    /\ UNCHANGED <<prog, port, serial_connection, is_connected, polls, banner, result,
                   valVars>>

\* gesture_stroke: one send of the inner motor loop
StrokeSend ==
    /\ prog = "simulator"
    /\ pc = "stroke"
    /\ SendTouchEvent(sent, wire, faults, g.step, FALSE, g.m,
                      StrokeDepth(g.step, g.steps, g.m, g.intensity),
                      g.step = 0 /\ g.m = 0)
    /\ AdvanceTick("stroke")
    /\ UNCHANGED <<prog, port, serial_connection, is_connected, polls, banner, result,
                   valVars>>

\* gesture_squeeze: steps = int(duration * 20)
StartSqueeze ==
    \E duration \in Durations, max_intensity \in Intensities,
       lat \in SendLatencies :
        BeginGesture([NoFrame EXCEPT !.kind = "squeeze", !.steps = StepsOf(duration),
                                     !.intensity = max_intensity, !.lat = lat],
                     IF StepsOf(duration) > 0 THEN "squeeze" ELSE "release")

\* gesture_squeeze: one send of the inner motor loop.  The intensity of a tick
\* divides by steps // 2, which is 0 when steps = 1: ZeroDivisionError leaves the
\* gesture before any event of the tick.
SqueezeSend ==
    /\ prog = "simulator"
    /\ pc = "squeeze"
    /\ IF g.steps \div 2 = 0
       THEN /\ pc' = "idle"
            /\ result' = "ZeroDivisionError"
            /\ UNCHANGED <<g, sent, wire, faults>>
       ELSE /\ SendTouchEvent(sent, wire, faults, g.step, FALSE, g.m,
                              SqueezeIntensity(g.step, g.steps, g.intensity),
                              g.step = 0)
            /\ AdvanceTick("squeeze")
            /\ UNCHANGED result
    /\ UNCHANGED <<prog, port, serial_connection, is_connected, polls, banner, valVars>>

\* a release loop that runs over the motors from the last to the first
ReleaseSend_Descending ==
    /\ prog = "simulator"
    /\ pc = "release"
    /\ SendTouchEvent(sent, wire, faults, g.steps, TRUE, num_motors - 1 - g.m,
                      Rat(0, 1), FALSE)
    /\ IF g.m + 1 < num_motors
       THEN /\ g' = [g EXCEPT !.m = g.m + 1, !.busy = g.busy + g.lat]
            /\ UNCHANGED <<pc, result>>
       ELSE /\ g' = [g EXCEPT !.busy = g.busy + g.lat]
            /\ pc' = "idle"
            /\ result' = "None"
    /\ UNCHANGED <<prog, port, serial_connection, is_connected, polls, banner, valVars>>

\* gesture_stroke / gesture_squeeze: "for motor_id in range(self.num_motors):
\* self.send_touch_event(motor_id, 0.0, False)", one send
ReleaseSend ==
    /\ prog = "simulator"
    /\ pc = "release"
    /\ SendTouchEvent(sent, wire, faults, g.steps, TRUE, g.m, Rat(0, 1), FALSE)
    /\ IF g.m + 1 < num_motors
       THEN /\ g' = [g EXCEPT !.m = g.m + 1, !.busy = g.busy + g.lat]
            /\ UNCHANGED <<pc, result>>
       ELSE /\ g' = [g EXCEPT !.busy = g.busy + g.lat]
            /\ pc' = "idle"
            /\ result' = "None"
    /\ UNCHANGED <<prog, port, serial_connection, is_connected, polls, banner, valVars>>

Playing == {"stroke", "squeeze", "release", "pat", "poke"}

\* a cancelled gesture that switches its actuator off before it returns
Interrupt_Releases ==
    /\ prog = "simulator"
    /\ pc \in Playing
    /\ pc' = "interrupted"
    /\ result' = "KeyboardInterrupt"
    /\ wire' = IF is_connected THEN Append(wire, Line(g.m, 0, FALSE)) ELSE wire
    /\ UNCHANGED <<prog, port, serial_connection, is_connected, polls, banner, g,
                   sent, faults, valVars>>

\* KeyboardInterrupt while a gesture runs: it leaves the gesture where it
\* stands and travels up to interactive_mode's "except KeyboardInterrupt:
\* break" or to main's handler; what follows is main's "finally:
\* simulator.disconnect()"
Interrupt ==
    /\ prog = "simulator"
    /\ pc \in Playing
    /\ pc' = "interrupted"
    /\ result' = "KeyboardInterrupt"
    /\ UNCHANGED <<prog, port, serial_connection, is_connected, polls, banner, g,
                   sent, wire, faults, valVars>>

\* gesture_pat
StartPat ==
    \E motor_id \in ActuatorIds, intensity \in PatIntensities :
        BeginGesture([NoFrame EXCEPT !.kind = "pat", !.steps = PatEvents,
                                     !.motor = motor_id, !.intensity = intensity],
                     "pat")

\* gesture_poke
StartPoke ==
    \E motor_id \in ActuatorIds, intensity \in Intensities :
        BeginGesture([NoFrame EXCEPT !.kind = "poke", !.steps = PokeEvents,
                                     !.motor = motor_id, !.intensity = intensity],
                     "poke")

\* gesture_pat / gesture_poke: the time.sleep between two events
PauseMs(kind) == IF kind = "pat" THEN PatPauseMs ELSE PokePauseMs

\* gesture_pat / gesture_poke: the next send of the fixed sequence, and the
\* pause that follows it unless it was the last
PulseSend(kind, depth) ==
    /\ prog = "simulator"
    /\ pc = kind
    /\ SendTouchEvent(sent, wire, faults, g.step, g.step + 1 = g.steps, g.motor,
                      depth, g.step = 0)
    /\ g' = [g EXCEPT !.step = g.step + 1,
                      !.slept = IF g.step + 1 < g.steps
                                THEN g.slept + PauseMs(kind) ELSE g.slept]
    /\ IF g.step + 1 < g.steps
       THEN UNCHANGED <<pc, result>>
       ELSE /\ pc' = "idle"
            /\ result' = "None"
    /\ UNCHANGED <<prog, port, serial_connection, is_connected, polls, banner, valVars>>

PatSend == PulseSend("pat", PatDepth(g.step, g.intensity))

PokeSend == PulseSend("poke", PokeDepth(g.step, g.intensity))

\* ---- TactValidator.connect ------------------------------------------------
\* log_result: one entry appended to self.test_results
WithResult(log, test_name, passed, details) ==
    Append(log, [test |-> test_name,
                 status |-> IF passed THEN "PASS" ELSE "FAIL",
                 details |-> details])

LogResult(test_name, passed, details) ==
    v_results' = WithResult(v_results, test_name, passed, details)

\* Port lookup and serial.Serial(...) of TactValidator.connect: the port is
\* given to the constructor or looked up; the validator's find_arduino_port has
\* no fallback paths
ValConnect ==
    /\ prog = "validator"
    /\ v_pc = "idle"
    /\ \E given \in BOOLEAN, outcome \in {"open_error", "opened"} :
       \E listing \in IF given THEN {<<>>} ELSE Listings,
          openable \in IF given THEN {{}} ELSE OpenableSets :
          /\ v_probe' = IF given THEN NoProbe ELSE ValFindPort(listing, openable)
          /\ CASE ~given /\ v_probe'.found = NoPort ->
                 /\ LogResult("Connection", FALSE, "Could not find Arduino port")
                 /\ v_pc' = "returned"
                 /\ v_result' = "False"
                 /\ UNCHANGED v_serial
            [] outcome = "open_error" ->
                 /\ LogResult("Connection", FALSE, "Serial error")
                 /\ v_pc' = "returned"
                 /\ v_result' = "False"
                 /\ UNCHANGED v_serial
            [] OTHER ->
                 /\ v_serial' = "open"
                 /\ v_pc' = "handshake"
                 /\ UNCHANGED <<v_results, v_result>>
    /\ v_polls' = 0
    /\ v_ready_found' = FALSE
    /\ v_closed' = FALSE
    /\ UNCHANGED <<prog, simVars, v_f, v_sent, v_faults, v_passed, v_run, v_link>>

\* One pass of the validator's "for _ in range(10)": the loop breaks on a line
\* containing the ready banner; after the loop the result is logged.
ValHandshakePoll ==
    /\ prog = "validator"
    /\ v_pc = "handshake"
    /\ \E r \in ReadOutcomes :
          CASE r = "raise" ->
                 /\ LogResult("Connection", FALSE, "Serial error")
                 /\ v_pc' = "returned"
                 /\ v_result' = "False"
                 /\ UNCHANGED <<v_polls, v_ready_found>>
            [] r = READY ->
                 /\ v_ready_found' = TRUE
                 /\ v_polls' = v_polls + 1
                 /\ LogResult("Connection", TRUE, "Connected")
                 /\ v_pc' = "returned"
                 /\ v_result' = "True"
            [] OTHER ->
                 /\ v_polls' = v_polls + 1
                 /\ UNCHANGED v_ready_found
                 /\ IF v_polls + 1 = HandshakePolls
                    THEN /\ LogResult("Connection", FALSE,
                                      "Arduino not responding with ready message")
                         /\ v_pc' = "returned"
                         /\ v_result' = "False"
                    ELSE UNCHANGED <<v_pc, v_results, v_result>>
    /\ UNCHANGED <<prog, v_serial, simVars, v_f, v_sent, v_faults, v_passed,
                   v_run, v_closed,
                   v_link, v_probe>>

\* ---- TactValidator: the run after connect ---------------------------------

StageNames == {Stages[k] : k \in DOMAIN Stages}
StageIndex(name) == CHOOSE k \in DOMAIN Stages : Stages[k] = name
AfterStage(name) ==
    IF StageIndex(name) = Len(Stages) THEN "summary" ELSE Stages[StageIndex(name) + 1]

\* what one serial write of a stage put, or failed to put, on the link: a
\* formatted command (id, depth in hundredths, flag) or a raw text line
Written(raw, text, id, cents, first_contact, ok) ==
    [raw |-> raw, text |-> text, id |-> id, depth |-> cents,
     flag |-> IF first_contact THEN 1 ELSE 0, ok |-> ok]

\* The link after the write w: a line that went through and names one of the
\* actuators becomes that actuator's last command; its first contact waits for
\* a later line of depth 0.00
LinkAfter(link, w) ==
    IF w.ok /\ w.id \in DOMAIN link
    THEN [link EXCEPT ![w.id] =
             [seen |-> TRUE, depth |-> w.depth,
              pending |-> w.flag = 1 \/ (w.depth # 0 /\ @.pending)]]
    ELSE link

\* send_command that swallows a failed write without logging it
SendCommand_Silent(actuator_id, penetration, first_contact, ok) ==
    IF v_serial = "None"
    THEN /\ ~ok
         /\ UNCHANGED <<v_sent, v_faults, v_results, v_link>>
    ELSE /\ ok \/ v_faults < MaxValFaults
         /\ \E cents \in FormatCents(Rat(penetration, 1000)) :
               LET w == Written(FALSE, "", actuator_id, cents, first_contact, ok)
               IN  /\ v_sent' = Append(v_sent, w)
                   /\ v_link' = LinkAfter(v_link, w)
         /\ v_faults' = IF ok THEN v_faults ELSE v_faults + 1
         /\ UNCHANGED v_results

\* TactValidator.send_command returning ok: no connection object means False
\* without a write; the depth is formatted as given, without clamping; a write
\* that raises is logged as a failed "Command Send" result.
SendCommand(actuator_id, penetration, first_contact, ok) ==
    IF v_serial = "None"
    THEN /\ ~ok
         /\ UNCHANGED <<v_sent, v_faults, v_results, v_link>>
    ELSE /\ ok \/ v_faults < MaxValFaults
         /\ \E cents \in FormatCents(Rat(penetration, 1000)) :
               LET w == Written(FALSE, "", actuator_id, cents, first_contact, ok)
               IN  /\ v_sent' = Append(v_sent, w)
                   /\ v_link' = LinkAfter(v_link, w)
         /\ v_faults' = IF ok THEN v_faults ELSE v_faults + 1
         /\ IF ok
            THEN UNCHANGED v_results
            ELSE LogResult("Command Send", FALSE, "Failed to send")

\* run_full_validation going on to the tests whatever connect() returned
ValAfterConnect_Continues ==
    /\ prog = "validator"
    /\ v_pc = "returned"
    /\ v_pc' = Stages[1]
    /\ v_passed' = 0
    /\ v_polls' = 0
    /\ v_ready_found' = FALSE
    /\ v_probe' = NoProbe
    /\ UNCHANGED <<prog, simVars, v_serial, v_results, v_result, v_f, v_sent,
                   v_faults, v_run, v_closed,
                   v_link>>

\* run_full_validation after connect() has returned: a failed connect ends
\* the run with False, otherwise the six tests are run in list order
ValAfterConnect ==
    /\ prog = "validator"
    /\ v_pc = "returned"
    /\ IF v_result = "False"
       THEN /\ v_run' = "False"
            /\ v_pc' = "done"
       ELSE /\ v_pc' = Stages[1]
            /\ UNCHANGED v_run
    /\ v_passed' = 0
    /\ v_polls' = 0               \* connect's locals are gone
    /\ v_ready_found' = FALSE
    /\ v_probe' = NoProbe
    /\ UNCHANGED <<prog, simVars, v_serial, v_results, v_result, v_f, v_sent,
                   v_faults, v_closed,
                   v_link>>

\* Entry of a test_* method: its locals are initialised; the timing stage
\* reads start_time here (lat is how long each of its sends will take)
ValStageBegin ==
    /\ prog = "validator"
    /\ v_pc \in StageNames
    /\ v_f.stage # v_pc
    /\ \E lat \in Latencies :
          /\ lat = 0 \/ v_pc = "Timing Performance"
          /\ v_f' = [NoStage EXCEPT !.stage = v_pc, !.lat = lat]
    /\ v_sent' = <<>>
    /\ UNCHANGED <<prog, simVars, v_serial, v_pc, v_polls, v_ready_found,
                   v_results, v_result, v_faults, v_passed, v_run, v_closed,
                   v_link, v_probe>>

InStage(name) == prog = "validator" /\ v_pc = name /\ v_f.stage = name

StageFrame == <<prog, simVars, v_serial, v_pc, v_polls, v_ready_found,
                v_result, v_passed, v_run, v_closed, v_probe>>

\* test_basic_communication: one pass of the loop over test_commands
BasicStep ==
    /\ InStage("Basic Communication")
    /\ v_f.i < Len(test_commands)
    /\ \E ok \in BOOLEAN :
          /\ SendCommand(test_commands[v_f.i + 1][1], test_commands[v_f.i + 1][2],
                         test_commands[v_f.i + 1][3], ok)
          /\ v_f' = [v_f EXCEPT !.i = @ + 1,
                                !.count = IF ok THEN @ + 1 ELSE @]
    /\ UNCHANGED StageFrame

\* test_motor_response: one send of the loop over range(4); j = 0 is the
\* activation of motor i, j = 1 its deactivation, sent only after a successful
\* activation
MotorStep ==
    /\ InStage("Motor Response")
    /\ v_f.i < MotorCount
    /\ \E ok \in BOOLEAN :
          IF v_f.j = 0
          THEN /\ SendCommand(v_f.i, 700, TRUE, ok)
               /\ v_f' = IF ok THEN [v_f EXCEPT !.j = 1]
                               ELSE [v_f EXCEPT !.i = @ + 1,
                                                !.flags = Append(@, FALSE)]
          ELSE /\ SendCommand(v_f.i, 0, FALSE, ok)
               /\ v_f' = [v_f EXCEPT !.i = @ + 1, !.j = 0,
                                     !.flags = Append(@, ok)]
    /\ UNCHANGED StageFrame

\* a first contact test that a failed send ends altogether
FirstContactStep_AbortsStage ==
    /\ InStage("First Contact Detection")
    /\ v_f.i < Len(test_sequences)
    /\ LET ev == test_sequences[v_f.i + 1][v_f.j + 1] IN
       \E ok \in BOOLEAN :
          /\ SendCommand(ev[1], ev[2], ev[3], ok)
          /\ v_f' = IF ~ok
                    THEN [v_f EXCEPT !.i = Len(test_sequences), !.j = 0]
                    ELSE IF v_f.j + 1 = Len(test_sequences[v_f.i + 1])
                    THEN [v_f EXCEPT !.i = @ + 1, !.j = 0, !.count = @ + 1]
                    ELSE [v_f EXCEPT !.j = @ + 1]
    /\ UNCHANGED StageFrame

\* test_first_contact_detection: one send of sequence i + 1; a failed send
\* breaks out of the sequence, a completed sequence counts
FirstContactStep ==
    /\ InStage("First Contact Detection")
    /\ v_f.i < Len(test_sequences)
    /\ LET ev == test_sequences[v_f.i + 1][v_f.j + 1] IN
       \E ok \in BOOLEAN :
          /\ SendCommand(ev[1], ev[2], ev[3], ok)
          /\ v_f' = IF ~ok
                    THEN [v_f EXCEPT !.i = @ + 1, !.j = 0]
                    ELSE IF v_f.j + 1 = Len(test_sequences[v_f.i + 1])
                    THEN [v_f EXCEPT !.i = @ + 1, !.j = 0, !.count = @ + 1]
                    ELSE [v_f EXCEPT !.j = @ + 1]
    /\ UNCHANGED StageFrame

\* an intensity test whose loop over the levels ends at the first failed send
IntensityStep_BreaksOnFailure ==
    /\ InStage("Intensity Scaling")
    /\ v_f.ok
    /\ v_f.i <= Len(intensity_levels)
    /\ \E ok \in BOOLEAN :
          IF v_f.i = 0
          THEN /\ SendCommand(1, intensity_levels[1], TRUE, ok)
               /\ v_f' = [v_f EXCEPT !.i = 1, !.ok = ok]
          ELSE IF v_f.i < Len(intensity_levels)
          THEN /\ SendCommand(1, intensity_levels[v_f.i + 1], FALSE, ok)
               /\ v_f' = [v_f EXCEPT !.i = IF ok THEN @ + 1
                                           ELSE Len(intensity_levels),
                                     !.count = IF ok THEN @ + 1 ELSE @]
          ELSE /\ SendCommand(1, 0, FALSE, ok)
               /\ v_f' = [v_f EXCEPT !.i = @ + 1]
    /\ UNCHANGED StageFrame

\* test_intensity_scaling: i = 0 is the opening send with first contact (its
\* failure ends the test), i = 1 .. 4 the remaining levels, i = 5 the stop
\* command, whose outcome is not looked at
IntensityStep ==
    /\ InStage("Intensity Scaling")
    /\ v_f.ok
    /\ v_f.i <= Len(intensity_levels)
    /\ \E ok \in BOOLEAN :
          IF v_f.i = 0
          THEN /\ SendCommand(1, intensity_levels[1], TRUE, ok)
               /\ v_f' = [v_f EXCEPT !.i = 1, !.ok = ok]
          ELSE IF v_f.i < Len(intensity_levels)
          THEN /\ SendCommand(1, intensity_levels[v_f.i + 1], FALSE, ok)
               /\ v_f' = [v_f EXCEPT !.i = @ + 1,
                                     !.count = IF ok THEN @ + 1 ELSE @]
          ELSE /\ SendCommand(1, 0, FALSE, ok)
               /\ v_f' = [v_f EXCEPT !.i = @ + 1]
    /\ UNCHANGED StageFrame

\* test_timing_performance: one pass of "for i in range(command_count)", the
\* send and the sleep that follows it
TimingStep ==
    /\ InStage("Timing Performance")
    /\ v_f.i < command_count
    /\ \E ok \in BOOLEAN :
          /\ SendCommand(v_f.i % 4, IF v_f.i % 2 = 0 THEN 500 ELSE 0,
                         v_f.i % 4 = 0, ok)
          /\ v_f' = [v_f EXCEPT !.i = @ + 1,
                                !.count = IF ok THEN @ + 1 ELSE @,
                                !.elapsed = @ + v_f.lat + TimingPauseMs]
    /\ UNCHANGED StageFrame

\* test_error_handling: i < 6 writes invalid_commands[i + 1] straight to the
\* link; i = 6 is the valid command, i = 7 its release, whose outcome is not
\* looked at; recovery_ok is the outcome of the valid command alone
ErrorStep ==
    /\ InStage("Error Handling")
    /\ v_f.i < Len(invalid_commands) + 2
    /\ \E ok \in BOOLEAN :
          IF v_f.i < Len(invalid_commands)
          THEN /\ ok \/ v_faults < MaxValFaults
               /\ LET p == invalid_fields[v_f.i + 1]
                      w == Written(TRUE, invalid_commands[v_f.i + 1],
                                   p[1], p[2], p[3] = 1, ok)
                  IN  /\ v_sent' = Append(v_sent, w)
                      /\ v_link' = LinkAfter(v_link, w)
               /\ v_faults' = IF ok THEN v_faults ELSE v_faults + 1
               /\ v_f' = [v_f EXCEPT !.i = @ + 1,
                                     !.count = IF ok THEN @ + 1 ELSE @]
               /\ UNCHANGED v_results
          ELSE IF v_f.i = Len(invalid_commands)
          THEN /\ SendCommand(0, 500, TRUE, ok)
               /\ v_f' = [v_f EXCEPT !.i = IF ok THEN @ + 1 ELSE @ + 2,
                                     !.ok = ok]
          ELSE /\ SendCommand(0, 0, FALSE, ok)
               /\ v_f' = [v_f EXCEPT !.i = @ + 1]
    /\ UNCHANGED StageFrame

\* the loop of the running test_* method has ended
StageFinished(f) ==
    CASE f.stage = "Basic Communication"     -> f.i = Len(test_commands)
      [] f.stage = "Motor Response"          -> f.i = MotorCount
      [] f.stage = "First Contact Detection" -> f.i = Len(test_sequences)
      [] f.stage = "Intensity Scaling"       -> ~f.ok \/ f.i = Len(intensity_levels) + 1
      [] f.stage = "Timing Performance"      -> f.i = command_count
      [] f.stage = "Error Handling"          -> f.i = Len(invalid_commands) + 2
      [] OTHER                               -> FALSE

\* a motor test that tolerates no failing motor
MotorPassed_AllRequired(f) ==
    Cardinality({k \in DOMAIN f.flags : f.flags[k]}) = MotorCount

MotorPassed(f) ==
    Cardinality({k \in DOMAIN f.flags : f.flags[k]}) >= MotorPassMin

\* a timing test that accepts a deviation of exactly the tolerance
TimingPassed_Inclusive(f) ==
    /\ Abs(f.elapsed - command_count * TimingPauseMs) <= TimingToleranceMs
    /\ f.count = command_count

TimingPassed(f) ==
    /\ Abs(f.elapsed - command_count * TimingPauseMs) < TimingToleranceMs
    /\ f.count = command_count

\* "passed" as each test_* method computes it
StagePassed(f) ==
    CASE f.stage = "Basic Communication"     -> f.count = Len(test_commands)
      [] f.stage = "Motor Response"          -> MotorPassed(f)
      [] f.stage = "First Contact Detection" -> f.count = Len(test_sequences)
      [] f.stage = "Intensity Scaling"       -> f.ok /\ f.count = Len(intensity_levels) - 1
      [] f.stage = "Timing Performance"      -> TimingPassed(f)
      [] f.stage = "Error Handling"          -> f.count = Len(invalid_commands) /\ f.ok
      [] OTHER                               -> FALSE

\* the text of the stage's result, without the counts it interpolates
StageDetails(f) ==
    CASE f.stage = "Basic Communication"     -> "commands sent successfully"
      [] f.stage = "Motor Response"          -> "motors responded correctly"
      [] f.stage = "First Contact Detection" -> "sequences completed"
      [] f.stage = "Intensity Scaling"       ->
             IF f.ok THEN "intensity levels tested"
                     ELSE "Failed to start intensity test"
      [] f.stage = "Timing Performance"      -> "commands in total_time"
      [] f.stage = "Error Handling"          -> "System handled invalid commands"
      [] OTHER                               -> ""

\* a run that goes straight to the summary once a test has failed
ValStageEnd_StopsOnFailure ==
    /\ InStage(v_pc)
    /\ StageFinished(v_f)
    /\ LogResult(v_f.stage, StagePassed(v_f), StageDetails(v_f))
    /\ v_f' = [v_f EXCEPT !.done = TRUE, !.passed = StagePassed(v_f)]
    /\ v_passed' = IF StagePassed(v_f) THEN v_passed + 1 ELSE v_passed
    /\ v_pc' = IF StagePassed(v_f) THEN AfterStage(v_f.stage) ELSE "summary"
    /\ UNCHANGED <<prog, simVars, v_serial, v_polls, v_ready_found, v_result,
                   v_sent, v_faults, v_run, v_closed,
                   v_link, v_probe>>

\* Tail of a test_* method and of the loop body in run_full_validation: the
\* result is logged, the method returns it, passed_tests counts it, and the
\* next test of the list is up
ValStageEnd ==
    /\ InStage(v_pc)
    /\ StageFinished(v_f)
    /\ LogResult(v_f.stage, StagePassed(v_f), StageDetails(v_f))
    /\ v_f' = [v_f EXCEPT !.done = TRUE, !.passed = StagePassed(v_f)]
    /\ v_passed' = IF StagePassed(v_f) THEN v_passed + 1 ELSE v_passed
    /\ v_pc' = AfterStage(v_f.stage)
    /\ UNCHANGED <<prog, simVars, v_serial, v_polls, v_ready_found, v_result,
                   v_sent, v_faults, v_run, v_closed,
                   v_link, v_probe>>

\* a summary that is content with all tests but one
ValSummary_Majority ==
    /\ prog = "validator"
    /\ v_pc = "summary"
    /\ v_run' = IF v_passed >= Len(Stages) - 1 THEN "True" ELSE "False"
    /\ v_pc' = "done"
    /\ UNCHANGED <<prog, simVars, v_serial, v_polls, v_ready_found, v_results,
                   v_result, v_f, v_sent, v_faults, v_passed, v_closed,
                   v_link, v_probe>>

\* run_full_validation after the loop: overall_passed = passed_tests == len(tests)
ValSummary ==
    /\ prog = "validator"
    /\ v_pc = "summary"
    /\ v_run' = IF v_passed = Len(Stages) THEN "True" ELSE "False"
    /\ v_pc' = "done"
    /\ UNCHANGED <<prog, simVars, v_serial, v_polls, v_ready_found, v_results,
                   v_result, v_f, v_sent, v_faults, v_passed, v_closed,
                   v_link, v_probe>>

\* TactValidator.disconnect, from main's "finally" or before any run
ValDisconnect ==
    /\ prog = "validator"
    /\ v_pc \in {"idle", "done"}
    /\ v_serial' = IF v_serial # "None" THEN "closed" ELSE v_serial
    /\ v_closed' = TRUE
    /\ UNCHANGED <<prog, simVars, v_pc, v_polls, v_ready_found, v_results,
                   v_result, v_f, v_sent, v_faults, v_passed, v_run, v_link,
                   v_probe>>

Next ==
    \/ CheckFirmware
    \/ SimConnect
    \/ SimHandshakePoll
    \/ SimDisconnect
    \/ ManualSend
    \/ StartStroke
    \/ StrokeSend
    \/ StartSqueeze
    \/ SqueezeSend
    \/ ReleaseSend
    \/ StartPat
    \/ PatSend
    \/ StartPoke
    \/ PokeSend
    \/ Interrupt
    \/ ValConnect
    \/ ValHandshakePoll
    \/ ValAfterConnect
    \/ ValStageBegin
    \/ BasicStep
    \/ MotorStep
    \/ FirstContactStep
    \/ IntensityStep
    \/ TimingStep
    \/ ErrorStep
    \/ ValStageEnd
    \/ ValSummary
    \/ ValDisconnect

Spec == Init /\ [][Next]_vars

\* ---- properties -----------------------------------------------------------

Gestures == {"stroke", "pat", "poke", "squeeze"}

\* the send_touch_event calls of the window that returned True
OkCalls == SelectSeq(sent, LAMBDA c : c.ret)

\* a step in which send_touch_event is called
SendStep ==
    \/ pc = "idle" /\ g'.kind = "manual"
    \/ pc \in {"stroke", "squeeze", "release", "pat", "poke"} /\ Len(sent') = Len(sent) + 1

\* the lines of the window before the call of a SendStep
WireBefore == IF pc = "idle" THEN <<>> ELSE wire

\* C1: a send_touch_event call on a connected session with an actuator id below 0
\* or at least num_motors returns False, writes nothing to the link and leaves
\* is_connected and the connection as they were.
C1_InvalidActuatorRejected ==
    [][(SendStep /\ is_connected /\ ~ValidActuator(sent'[Len(sent')].id))
          => /\ sent'[Len(sent')].ret = FALSE
             /\ wire' = WireBefore
             /\ UNCHANGED <<is_connected, serial_connection>>]_vars

C1_Witness ==
    /\ g.kind = "manual"
    /\ is_connected
    /\ serial_connection = "open"
    /\ Len(sent) = 1
    /\ sent[1].id = num_motors
    /\ sent[1].ret = FALSE
    /\ wire = <<>>

\* C2: every call that wrote did write exactly one line, whose id field is the
\* id passed, whose flag is 1 exactly when first_contact is true, and whose depth
\* field is the two-decimal rounding of the depth clamped to [0, 1]: 0.00 for a
\* depth <= 0, 1.00 for a depth >= 1, else within half a hundredth of the depth.
C2_LineEncodesEvent ==
    /\ Len(wire) = Len(OkCalls)
    /\ \A j \in 1 .. Len(OkCalls) :
          LET c == OkCalls[j]
              l == wire[j]
              n == c.depth[1]
              d == c.depth[2]
          IN  /\ ValidActuator(c.id)
              /\ l.id = c.id
              /\ (l.flag = 1) = c.fc
              /\ l.flag \in {0, 1}
              /\ IF n <= 0 THEN l.depth = 0
                 ELSE IF n >= d THEN l.depth = 100
                 ELSE 2 * Abs(100 * n - l.depth * d) <= d

C2_Witness ==
    /\ g.kind = "manual"
    /\ Len(wire) = 1
    /\ sent[1].depth = Rat(756, 1000)
    /\ sent[1].fc
    /\ wire[1] = [id |-> 3, depth |-> 76, flag |-> 1]

\* C3: whatever gestures are called with whatever intensity, every line on the
\* link has a depth field in 0.00 .. 1.00 and an actuator id in 0 .. num_motors-1.
C3_WireWellFormed ==
    \A j \in 1 .. Len(wire) :
        /\ wire[j].depth \in 0 .. 100
        /\ wire[j].id \in 0 .. num_motors - 1

\* a gesture passed an unclamped depth above 1.0 to send_touch_event, and the
\* line written for it carries 1.00
C3_Witness ==
    /\ g.kind \in Gestures
    /\ Len(sent) > 0
    /\ sent[Len(sent)].ret
    /\ RatLess(Rat(1, 1), sent[Len(sent)].depth)
    /\ wire[Len(wire)].depth = 100

\* C4: the simulator's connect returns True once its 10 handshake polls are done,
\* banner or no banner; the validator's connect returns True exactly when a ready
\* banner was read within its 10 polls, and otherwise returns False having logged
\* one failed Connection result.
C4_HandshakeAsymmetry ==
    /\ (prog = "simulator" /\ g.kind = "connect" /\ pc = "idle"
          /\ polls = HandshakePolls)
          => result = "True"
    /\ (prog = "simulator" /\ g.kind = "connect" /\ result = "True")
          => polls = HandshakePolls /\ is_connected
    /\ (prog = "validator" /\ v_pc = "returned")
          => /\ (v_result = "True") = v_ready_found
             /\ v_result \in {"True", "False"}
             /\ v_polls <= HandshakePolls
             /\ Len(v_results) = 1
             /\ v_results[1].test = "Connection"
             /\ (v_results[1].status = "PASS") = (v_result = "True")

\* the simulator's connect returned True without any ready banner
C4_Witness ==
    /\ prog = "simulator"
    /\ g.kind = "connect"
    /\ result = "True"
    /\ ~banner

\* the validator's connect returned False after 10 polls without a banner
C4_ValidatorRefuses ==
    /\ prog = "validator"
    /\ v_pc = "returned"
    /\ v_polls = HandshakePolls
    /\ ~v_ready_found
    /\ v_result = "False"

\* the calls of the window issued by a tick of the gesture body (not releases)
TickCalls == {i \in 1 .. Len(sent) : ~sent[i].rel}

\* the calls of the window with first_contact = True
FirstContacts == {i \in 1 .. Len(sent) : sent[i].fc}

\* a stroke or squeeze call has returned normally
Returned(kind) == g.kind = kind /\ pc = "idle" /\ result = "None"

\* C5: in a gesture, once a send has failed no later event is sent, and the
\* gesture reports the failure to its caller.
C5_FailedSendAborts ==
    (g.kind \in Gestures /\ is_connected)
        => \A i \in 1 .. Len(sent) :
              ~sent[i].ret => /\ i = Len(sent)
                              /\ pc = "idle" => result # "None"

\* C6: a stroke of steps >= 1 ticks issues steps * num_motors + num_motors
\* events, the first for actuator 0 with first_contact set, and no other event
\* has first_contact set; with every write succeeding the same holds of the lines.
C6_StrokeEventCount ==
    (Returned("stroke") /\ g.steps >= 1)
        => /\ Len(sent) = g.steps * num_motors + num_motors
           /\ sent[1].id = 0
           /\ sent[1].fc
           /\ FirstContacts = {1}
           /\ (is_connected /\ faults = 0)
                 => /\ Len(wire) = g.steps * num_motors + num_motors
                    /\ wire[1].id = 0
                    /\ {j \in 1 .. Len(wire) : wire[j].flag = 1} = {1}

C6_Witness ==
    /\ Returned("stroke")
    /\ g.steps = MaxSteps
    /\ is_connected
    /\ faults = 0
    /\ Len(wire) = MaxSteps * num_motors + num_motors
    /\ wire[1].flag = 1

\* C7: every tick of a squeeze with max_intensity >= 0 computes an intensity
\* between 0 and max_intensity.
C7_SqueezeWithinMax ==
    (g.kind = "squeeze" /\ g.intensity >= 0)
        => \A i \in TickCalls :
              /\ sent[i].depth[1] >= 0
              /\ ~RatLess(Rat(g.intensity, 1000), sent[i].depth)

\* the depth a call puts on the link: its depth argument clamped to [0, 1]
SentDepth(i) == ClampDepth(sent[i].depth)

\* C8 as stated: on a connected session the depth sent at tick k equals (within
\* 0.01) the depth sent at tick steps - 1 - k, for k < steps / 2.
C8_SqueezeMirrorAsStated ==
    (g.kind = "squeeze" /\ is_connected)
        => \A i, j \in TickCalls :
              (/\ sent[i].ret /\ sent[j].ret
               /\ 2 * sent[i].tick < g.steps
               /\ sent[j].tick = g.steps - 1 - sent[i].tick)
                 => 100 * Abs(SentDepth(i)[1] * SentDepth(j)[2]
                              - SentDepth(j)[1] * SentDepth(i)[2])
                       <= SentDepth(i)[2] * SentDepth(j)[2]

\* C8 amended: the depth sent at tick k equals the depth sent at tick steps - k,
\* for 1 <= k < steps // 2; the ramp peaks at tick steps // 2.
C8_SqueezeMirror ==
    g.kind = "squeeze"
        => \A i, j \in TickCalls :
              (/\ 1 <= sent[i].tick
               /\ sent[i].tick < g.steps \div 2
               /\ sent[j].tick = g.steps - sent[i].tick)
                 => /\ RatEq(sent[i].depth, sent[j].depth)
                    /\ RatEq(SentDepth(i), SentDepth(j))

C8_Witness ==
    /\ Returned("squeeze")
    /\ g.steps >= 4
    /\ g.intensity > 0
    /\ is_connected
    /\ \E i, j \in TickCalls :
          /\ sent[i].tick = 1
          /\ sent[j].tick = g.steps - 1
          /\ sent[i].ret /\ sent[j].ret
          /\ SentDepth(i)[1] > 0
          /\ RatEq(SentDepth(i), SentDepth(j))

\* C9: a stroke or squeeze of any duration >= 0 runs to completion without
\* raising, and its last num_motors events are releases (depth 0, no first
\* contact), one per actuator; with steps = 0 they are its only events.
C9_ReleaseAlwaysIssued ==
    (g.kind \in {"stroke", "squeeze"} /\ pc = "idle")
        => /\ result = "None"
           /\ Len(sent) >= num_motors
           /\ \A m \in 0 .. num_motors - 1 :
                 LET c == sent[Len(sent) - num_motors + 1 + m]
                 IN  c.id = m /\ c.depth[1] = 0 /\ ~c.fc
           /\ g.steps = 0 => Len(sent) = num_motors

\* C10: in a squeeze of steps >= 1 the events with first_contact set are exactly
\* the num_motors events of tick 0, one per actuator.
C10_SqueezeFirstContact ==
    (g.kind = "squeeze" /\ pc = "idle" /\ g.steps >= 1)
        => /\ \A i \in 1 .. Len(sent) :
                 sent[i].fc = (~sent[i].rel /\ sent[i].tick = 0)
           /\ \A m \in 0 .. num_motors - 1 :
                 Cardinality({i \in FirstContacts : sent[i].id = m}) = 1

\* C11: a pat on a valid actuator issues exactly 4 events, all on that actuator,
\* with depths i, 0.7 i, 0.4 i and 0 in that order, 100 ms of sleep between
\* consecutive events, and first_contact set on the first event only; on a
\* connected session without write failure the four lines carry those depths
\* clamped and rounded (0.80, 0.56, 0.32, 0.00 for intensity 0.8).
C11_PatSequence ==
    (Returned("pat") /\ ValidActuator(g.motor))
        => /\ Len(sent) = 4
           /\ \A i \in 1 .. 4 : sent[i].id = g.motor /\ sent[i].at = 100 * (i - 1)
           /\ sent[1].depth[1] * 1000 = g.intensity * sent[1].depth[2]
           /\ sent[2].depth[1] * 10000 = 7 * g.intensity * sent[2].depth[2]
           /\ sent[3].depth[1] * 10000 = 4 * g.intensity * sent[3].depth[2]
           /\ sent[4].depth[1] = 0
           /\ FirstContacts = {1}
           /\ (is_connected /\ faults = 0 /\ g.intensity = 800)
                 => /\ [j \in 1 .. 4 |-> wire[j].depth] = <<80, 56, 32, 0>>
                    /\ [j \in 1 .. 4 |-> wire[j].flag] = <<1, 0, 0, 0>>

C11_Witness ==
    /\ Returned("pat")
    /\ g.motor = 1
    /\ g.intensity = 800
    /\ is_connected
    /\ Len(wire) = 4
    /\ wire[2] = [id |-> 1, depth |-> 56, flag |-> 0]
    /\ sent[4].at = 300

\* ---- the validation run ----------------------------------------------------

RunOrder == <<"Connection">> \o Stages
IsStageEntry(r) == r.test # "Command Send"
StageEntries == SelectSeq(v_results, IsStageEntry)
Names(log) == [k \in DOMAIN log |-> log[k].test]
RunEnded == v_pc = "done" /\ v_result = "True"
FailedRaw == Cardinality({k \in DOMAIN v_sent : v_sent[k].raw /\ ~v_sent[k].ok})

\* C12 as stated: after a run whose Connect succeeded the log holds exactly the
\* 7 stage results, in stage order.
C12_SevenEntries ==
    RunEnded => Names(v_results) = RunOrder

\* C12: the stage results appear in the log in the fixed order Connection,
\* Basic Communication, Motor Response, First Contact Detection, Intensity
\* Scaling, Timing Performance, Error Handling, one per executed stage and each
\* the last thing its stage logs; besides them the log holds one failed
\* "Command Send" result for every send_command whose write raised (a raw
\* malformed write that raises logs nothing), so a finished run has the 7 stage
\* results, and exactly 7 entries only when no send_command write failed.
C12_StageEntriesInOrder ==
    /\ Names(StageEntries) = SubSeq(RunOrder, 1, Len(StageEntries))
    /\ \A k \in DOMAIN v_results :
          ~IsStageEntry(v_results[k]) => v_results[k].status = "FAIL"
    /\ Len(v_results) - Len(StageEntries)
          = v_faults - (IF v_f.stage = "Error Handling" THEN FailedRaw ELSE 0)
    /\ v_f.done => /\ v_results[Len(v_results)].test = v_f.stage
                   /\ v_results[Len(v_results)].status
                         = IF v_f.passed THEN "PASS" ELSE "FAIL"
    /\ v_pc \in StageNames => Len(StageEntries) = StageIndex(v_pc)
    /\ RunEnded => Len(StageEntries) = Len(RunOrder)
    /\ (RunEnded /\ v_faults = 0) => Names(v_results) = RunOrder

\* a finished run whose log has two "Command Send" results among the seven
C12_Witness ==
    /\ RunEnded
    /\ Len(v_results) = Len(RunOrder) + 2
    /\ v_results[3].test = "Command Send"
    /\ Len(StageEntries) = Len(RunOrder)

\* C13: when connect fails (no port, open error, or no ready banner within the
\* polls) run_full_validation returns False, no test has started, nothing was
\* written to the link, and the log is the one failed Connection result.
C13_ConnectFailureIsTerminal ==
    (prog = "validator" /\ v_result = "False")
        => /\ v_pc \in {"returned", "done"}
           /\ v_pc = "done" => v_run = "False"
           /\ v_run # "True"
           /\ v_f = NoStage
           /\ v_sent = <<>>
           /\ v_faults = 0
           /\ v_passed = 0
           /\ Len(v_results) = 1
           /\ v_results[1].test = "Connection"
           /\ v_results[1].status = "FAIL"

\* the run has ended after a handshake that never saw the ready banner
C13_Witness ==
    /\ v_pc = "done"
    /\ v_result = "False"
    /\ v_run = "False"
    /\ v_serial = "open"
    /\ v_results[1].details = "Arduino not responding with ready message"

\* a step of the validation run between connect's return and the run's return
ValRunStep ==
    \/ ValAfterConnect
    \/ ValStageBegin
    \/ BasicStep
    \/ MotorStep
    \/ FirstContactStep
    \/ IntensityStep
    \/ TimingStep
    \/ ErrorStep
    \/ ValStageEnd
    \/ ValSummary

EntriesOf(name) == {k \in DOMAIN v_results : v_results[k].test = name}

\* C14: once connect has succeeded the run cannot stop before its end; a
\* finished test is followed by the next test of the list whether it passed or
\* failed; and at the end every one of the six tests has logged exactly one
\* result, a failed test a FAIL result.
C14_EveryStageRunsOnce ==
    /\ (prog = "validator" /\ v_result = "True" /\ v_pc # "done")
          => ENABLED ValRunStep
    /\ \A n \in StageNames :
          /\ Cardinality(EntriesOf(n)) <= 1
          /\ RunEnded => Cardinality(EntriesOf(n)) = 1
    /\ v_f.done => /\ v_pc \in {AfterStage(v_f.stage), "done"}
                   /\ v_pc = "done" => v_f.stage = Stages[Len(Stages)]
                   /\ \E k \in EntriesOf(v_f.stage) :
                         v_results[k].status = IF v_f.passed THEN "PASS" ELSE "FAIL"

\* a finished run whose first test failed and whose last test passed
C14_Witness ==
    /\ RunEnded
    /\ \E k \in EntriesOf("Basic Communication") : v_results[k].status = "FAIL"
    /\ \E k \in EntriesOf("Error Handling") : v_results[k].status = "PASS"

\* C15: run_full_validation returns True exactly when connect succeeded and
\* each of the six tests logged PASS; until it returns there is no result.
C15_OverallResult ==
    /\ v_pc # "done" => v_run = "none"
    /\ v_pc = "done"
          => /\ v_run \in {"True", "False"}
             /\ v_run = "True"
                   <=> /\ v_result = "True"
                       /\ \A n \in StageNames :
                             \E k \in EntriesOf(n) : v_results[k].status = "PASS"

\* five tests passed, one failed, and the run returned False
C15_Witness ==
    /\ RunEnded
    /\ v_passed = Len(Stages) - 1
    /\ v_run = "False"

\* a run that returned True
C15_RunPasses == v_pc = "done" /\ v_run = "True"

StageDone(name) == v_f.stage = name /\ v_f.done
AllWritten == \A k \in DOMAIN v_sent : v_sent[k].ok
IsCommand(w, id, cents, flag) ==
    ~w.raw /\ w.id = id /\ w.depth = cents /\ w.flag = flag

\* C16: the malformed lines are written verbatim, and test_error_handling
\* passes exactly when all 6 of them were written without an error and, after
\* them, both the valid command 0,0.50,1 and its release 0,0.00,0 were sent
\* successfully.
C16_ErrorHandlingPass ==
    StageDone("Error Handling")
        => /\ \A k \in 1 .. 6 : v_sent[k].raw /\ v_sent[k].text = invalid_commands[k]
           /\ v_f.passed <=> /\ Len(v_sent) = 8
                             /\ AllWritten
                             /\ IsCommand(v_sent[7], 0, 50, 1)
                             /\ IsCommand(v_sent[8], 0, 0, 0)

\* what the code decides on: the six raw writes and the valid command alone
ErrorHandlingAsCoded ==
    StageDone("Error Handling")
        => (v_f.passed <=> /\ Len(v_sent) >= 7
                           /\ \A k \in 1 .. 7 : v_sent[k].ok
                           /\ IsCommand(v_sent[7], 0, 50, 1))

Activations(m)   == {k \in DOMAIN v_sent : IsCommand(v_sent[k], m, 70, 1)}
Deactivations(m) == {k \in DOMAIN v_sent : IsCommand(v_sent[k], m, 0, 0)}
Responded(m) ==
    /\ \E k \in Activations(m) : v_sent[k].ok
    /\ \E k \in Deactivations(m) : v_sent[k].ok

\* C17: test_motor_response sends, for motors 0, 1, 2, 3 in this order, one
\* activation (0.70, first contact) and, directly after it and only if it was
\* sent, one deactivation (0.00); it passes exactly when at least 3 of the 4
\* motors had both sends succeed.
C17_MotorResponse ==
    StageDone("Motor Response")
        => /\ \A k \in DOMAIN v_sent :
                 \E m \in 0 .. 3 : k \in Activations(m) \cup Deactivations(m)
           /\ \A k, l \in DOMAIN v_sent : k < l => v_sent[k].id <= v_sent[l].id
           /\ \A m \in 0 .. 3 :
                 /\ Cardinality(Activations(m)) = 1
                 /\ \A k \in Activations(m) :
                       Deactivations(m) = IF v_sent[k].ok THEN {k + 1} ELSE {}
           /\ v_f.passed <=> Cardinality({m \in 0 .. 3 : Responded(m)}) >= 3

\* one motor failed to activate and the test passed
C17_Witness ==
    /\ StageDone("Motor Response")
    /\ v_f.passed
    /\ Cardinality({m \in 0 .. 3 : Responded(m)}) = 3
    /\ Len(v_sent) = 7

\* two motors failed and the test did not pass
C17_TwoFail ==
    /\ StageDone("Motor Response")
    /\ ~v_f.passed
    /\ Cardinality({m \in 0 .. 3 : Responded(m)}) = 2

\* C18: test_timing_performance attempts exactly 20 sends, motor i mod 4, depth
\* 0.50 on even i and 0.00 on odd i, whether or not earlier ones failed, with a
\* 50 ms sleep after each; it passes exactly when all 20 were sent and the
\* measured time is less than 500 ms away from 1000 ms.
C18_TimingPerformance ==
    /\ (v_f.stage = "Timing Performance" /\ ~v_f.done) => Len(v_sent) = v_f.i
    /\ StageDone("Timing Performance")
          => /\ Len(v_sent) = 20
             /\ \A k \in 1 .. 20 :
                   IsCommand(v_sent[k], (k - 1) % 4,
                             IF (k - 1) % 2 = 0 THEN 50 ELSE 0,
                             IF (k - 1) % 4 = 0 THEN 1 ELSE 0)
             /\ v_f.elapsed = 20 * (50 + v_f.lat)
             /\ v_f.passed <=> /\ AllWritten
                               /\ Abs(v_f.elapsed - 1000) < 500

\* all 20 commands were sent, the run took 1500 ms, and the test failed
C18_Witness ==
    /\ StageDone("Timing Performance")
    /\ AllWritten
    /\ v_f.elapsed = 1500
    /\ ~v_f.passed

\* all 20 commands were sent in 1480 ms and the test passed
C18_Passes ==
    /\ StageDone("Timing Performance")
    /\ v_f.elapsed = 1480
    /\ v_f.passed

\* ---- disconnect and write failures -----------------------------------------

\* C19: disconnect can be called whenever no other call is running: before any
\* connect, after a connect that failed at any point, after a successful one,
\* and again after itself; it returns normally, leaves no open connection and,
\* in the simulator, is_connected False; a second call changes nothing.
C19_DisconnectIdempotent ==
    /\ [](/\ (prog = "simulator" /\ pc = "idle") => ENABLED SimDisconnect
          /\ (prog = "validator" /\ v_pc \in {"idle", "done"}) => ENABLED ValDisconnect
          /\ g.kind = "disconnect" => /\ serial_connection \in {"None", "closed"}
                                      /\ ~is_connected
                                      /\ result = "None"
          /\ v_closed => v_serial \in {"None", "closed"})
    /\ [][/\ (g.kind = "disconnect" /\ g'.kind = "disconnect")
                => UNCHANGED <<serial_connection, is_connected>>
          /\ (v_closed /\ v_closed') => UNCHANGED v_serial]_vars

\* the simulator has closed a connection it had opened
C19_Witness ==
    /\ g.kind = "disconnect"
    /\ serial_connection = "closed"
    /\ ~is_connected
    /\ result = "None"

\* the validator has closed its connection after a run
C19_ValidatorClosed == v_closed /\ v_serial = "closed" /\ v_pc = "done"

ValidCalls == {i \in DOMAIN sent : ValidActuator(sent[i].id)}
CommandStage == v_f.stage \in {"Basic Communication", "Timing Performance"}

\* C20: on a connected session every send_touch_event call with a valid id
\* makes exactly one write attempt: it returns True and its line is on the
\* link, or the write raised once and it returns False, nothing being written
\* for it; a direct call hands that value to its caller. The validator's
\* send_command likewise makes one write per call and counts a success only
\* for a write that went through.
C20_OneWriteAttempt ==
    /\ is_connected
          => /\ serial_connection = "open"
             /\ Len(wire) = Cardinality({i \in ValidCalls : sent[i].ret})
             /\ faults = Cardinality({i \in ValidCalls : ~sent[i].ret})
    /\ (g.kind = "manual" /\ Len(sent) = 1)
          => result = IF sent[1].ret THEN "True" ELSE "False"
    /\ (CommandStage /\ ~v_f.done)
          => /\ Len(v_sent) = v_f.i
             /\ v_f.count = Cardinality({k \in DOMAIN v_sent : v_sent[k].ok})

\* a direct call whose write raised: one failed attempt, False, nothing written
C20_Witness ==
    /\ g.kind = "manual"
    /\ is_connected
    /\ ValidActuator(sent[1].id)
    /\ faults = 1
    /\ wire = <<>>
    /\ result = "False"

\* ---- contact and release on the link ---------------------------------------

\* line i of the window has a later line of depth 0.00 for the same actuator
ReleasedLater(i) ==
    \E j \in DOMAIN wire : j > i /\ wire[j].id = wire[i].id /\ wire[j].depth = 0

\* C21: when every write went through, each line with first_contact = 1 that a
\* completed gesture wrote is followed later by a line of depth 0.00 for the
\* same actuator, and at the end of a complete validation run no actuator has
\* a first contact that was not followed by a depth 0.00 command for it.
C21_FirstContactReleased ==
    /\ (g.kind \in Gestures /\ pc = "idle" /\ result = "None" /\ faults = 0)
          => \A i \in DOMAIN wire : wire[i].flag = 1 => ReleasedLater(i)
    /\ (RunEnded /\ v_faults = 0)
          => \A a \in DOMAIN v_link : v_link[a].seen /\ ~v_link[a].pending

\* a poke on a connected session: 0.70 with first contact, then 0.00
C21_Witness ==
    /\ Returned("poke")
    /\ is_connected
    /\ wire = <<[id |-> 2, depth |-> 70, flag |-> 1],
                [id |-> 2, depth |-> 0, flag |-> 0]>>

\* a validation run in which every write went through has ended
C21_RunWitness == RunEnded /\ v_faults = 0 /\ v_run = "True"

\* ---- connections to the port -----------------------------------------------

\* C22: no connection to the port is opened while another one is open: every
\* fallback probe that opened was closed again, and when connect opens its
\* connection neither the firmware check's connection nor a connection of an
\* earlier connect call is still open.
C22_OneOpenConnection ==
    /\ \A k \in DOMAIN g.lookup.probes :
          g.lookup.probes[k].opened => g.lookup.probes[k].closed
    /\ g.kind = "connect" => g.overlap = 0

\* the part of C22 that the code keeps: whatever connect finds, the fallback
\* probes it opened are closed before it opens its own connection
ProbesClosed ==
    \A k \in DOMAIN g.lookup.probes :
        g.lookup.probes[k].opened => g.lookup.probes[k].closed

\* connect has opened a second connection beside the one it already held
C22_SecondConnection == g.kind = "connect" /\ g.overlap = 1 /\ ~g.lookup.asked

\* ---- cancellation ----------------------------------------------------------

\* C23: a KeyboardInterrupt during a gesture writes nothing and issues no
\* event, in particular no release; it ends the gesture with control back at
\* the caller; and from then on no event is issued and no line written: the
\* one thing that still happens to the session is disconnect.
C23_CancelStopsPlayback ==
    /\ [](pc = "interrupted" => /\ result \in {"KeyboardInterrupt", "None"}
                                /\ g.kind \in Gestures \cup {"disconnect"}
                                /\ ENABLED SimDisconnect)
    /\ [][/\ (pc # "interrupted" /\ pc' = "interrupted")
                => /\ pc \in Playing
                   /\ result' = "KeyboardInterrupt"
                   /\ UNCHANGED <<sent, wire, g, serial_connection, is_connected>>
          /\ pc = "interrupted"
                => /\ pc' = "interrupted"
                   /\ Len(sent') <= Len(sent)
                   /\ Len(wire') <= Len(wire)
                   /\ g'.kind \in {g.kind, "disconnect"}]_vars

\* a stroke was cancelled after writing a line of non-zero depth, which is the
\* last line of the session
C23_Witness ==
    /\ pc = "interrupted"
    /\ g.kind = "stroke"
    /\ is_connected
    /\ Len(wire) = 2
    /\ wire[2].depth > 0

\* the caller has disconnected after a cancelled gesture
C23_Disconnected == pc = "interrupted" /\ g.kind = "disconnect" /\ ~is_connected

\* ---- pacing ----------------------------------------------------------------

\* milliseconds since the running stroke or squeeze began
Elapsed == g.slept + g.busy

\* the gesture stands at the first send of tick g.step
AtTickStart == pc \in {"stroke", "squeeze"} /\ g.m = 0

\* C24: in a stroke or squeeze, whatever time the sends take, tick k starts
\* k * 50 ms after the start of the playback.
C24_NoDrift ==
    AtTickStart => Elapsed = g.step * TickMs

\* what the code does: a fixed 50 ms sleep after the num_motors sends of each
\* tick, so that tick k starts k * (50 + num_motors * lat) ms after the start
FixedPause ==
    AtTickStart => /\ g.slept = g.step * TickMs
                   /\ Elapsed = g.step * (TickMs + num_motors * g.lat)

\* ---- port lookup of connect --------------------------------------------------

\* the lookup l went as described: the first matching listed device; with no
\* match the fallback paths probed in their order up to the first that opens,
\* every opened probe closed; nothing found only when no candidate is left
LookupAsDescribed(l) ==
    IF Matches(l.listing) # {}
    THEN l.found = ListedPort(Min(Matches(l.listing)))
    ELSE /\ \A k \in DOMAIN l.probes :
               /\ l.probes[k].path = common_ports[k]
               /\ l.probes[k].opened = (k \in l.openable)
               /\ l.probes[k].opened => l.probes[k].closed
         /\ IF l.openable = {}
            THEN l.found = NoPort /\ Len(l.probes) = Len(common_ports)
            ELSE /\ l.found = CommonPort(Min(l.openable))
                 /\ Len(l.probes) = Min(l.openable)

\* the simulator's connect has just looked the port up
SimLookedUp == g.kind = "connect" /\ g.lookup.asked

\* C25: a connect without a port, of the simulator and of the validator alike,
\* selects the first matching listed device, else the first fallback path that
\* opens (probes closed), and fails with not-found only when every candidate
\* has failed.
C25_PortLookup ==
    /\ SimLookedUp => LookupAsDescribed(g.lookup)
    /\ v_probe.asked => LookupAsDescribed(v_probe)

\* the simulator's half alone
SimPortLookup ==
    SimLookedUp =>
        /\ LookupAsDescribed(g.lookup)
        /\ g.lookup.found = NoPort
              => /\ result = "False" /\ port = "None"
                 /\ g.overlap = 0 /\ polls = 0

\* the validator gives up although /dev/ttyUSB0 could have been opened
ValNoFallback ==
    /\ v_probe.asked /\ Matches(v_probe.listing) = {} /\ v_probe.openable = {2, 4}
    /\ v_probe.probes = <<>> /\ v_probe.found = NoPort
    /\ v_pc = "returned" /\ v_result = "False" /\ v_serial # "open"

\* ---- test_intensity_scaling ----------------------------------------------------

\* the writes of the whole test: the opening first contact at 0.10, the levels
\* 0.30, 0.50, 0.70, 0.90 without first contact, the stop, all on actuator 1
IntensityWrites ==
    /\ Len(v_sent) = 6
    /\ IsCommand(v_sent[1], 1, 10, 1)
    /\ \A k \in 2 .. 5 : IsCommand(v_sent[k], 1, intensity_levels[k] \div 10, 0)
    /\ IsCommand(v_sent[6], 1, 0, 0)

FollowUpsSent == \A k \in 2 .. 5 : k \in DOMAIN v_sent /\ v_sent[k].ok

\* C26: test_intensity_scaling sends the opening first contact on actuator 1,
\* then the follow-ups 0.30, 0.50, 0.70, 0.90 without first contact, every one
\* of them attempted even after one failed, then the stop; it passes exactly
\* when the 4 follow-ups were sent, whatever became of the stop.
C26_IntensityScaling ==
    StageDone("Intensity Scaling")
        => IntensityWrites /\ (v_f.passed <=> FollowUpsSent)

\* C26, amended: the above once the opening send has succeeded; when the opening
\* send fails the test ends there with FAIL "Failed to start intensity test",
\* no follow-up and no stop being attempted.
C26_IntensityScalingOnceStarted ==
    StageDone("Intensity Scaling")
        => /\ Len(v_sent) >= 1
           /\ IsCommand(v_sent[1], 1, 10, 1)
           /\ IF v_sent[1].ok
              THEN IntensityWrites /\ (v_f.passed <=> FollowUpsSent)
              ELSE /\ Len(v_sent) = 1
                   /\ ~v_f.passed
                   /\ v_results[Len(v_results)] =
                         [test |-> "Intensity Scaling", status |-> "FAIL",
                          details |-> "Failed to start intensity test"]

\* the second follow-up failed, the later ones and the stop were still sent,
\* and the test failed
C26_Witness ==
    /\ StageDone("Intensity Scaling")
    /\ Len(v_sent) = 6
    /\ \A k \in DOMAIN v_sent : v_sent[k].ok <=> k # 3
    /\ ~v_f.passed

\* the stop failed and the test passed
C26_StopFailed ==
    /\ StageDone("Intensity Scaling")
    /\ Len(v_sent) = 6
    /\ \A k \in DOMAIN v_sent : v_sent[k].ok <=> k # 6
    /\ v_f.passed

\* the opening send failed
C26_NotStarted ==
    /\ StageDone("Intensity Scaling")
    /\ v_sent = <<Written(FALSE, "", 1, 10, TRUE, FALSE)>>
    /\ ~v_f.passed

\* ---- test_first_contact_detection ----------------------------------------------

\* the writes of sequence q within the test's writes: those naming actuator
\* q - 1, the one actuator the sequence addresses
SequenceWrites(q) == SelectSeq(v_sent, LAMBDA w : w.id = q - 1)

\* ws is sequence q sent up to and including its first failed send
RunOfSequence(ws, q) ==
    /\ Len(ws) >= 1
    /\ Len(ws) <= Len(test_sequences[q])
    /\ \A k \in DOMAIN ws :
          /\ IsCommand(ws[k], test_sequences[q][k][1],
                       test_sequences[q][k][2] \div 10,
                       IF test_sequences[q][k][3] THEN 1 ELSE 0)
          /\ k < Len(ws) => ws[k].ok
    /\ Len(ws) < Len(test_sequences[q]) => ~ws[Len(ws)].ok

\* C27: test_first_contact_detection runs its 3 sequences of 3 events in order;
\* a failed send ends its own sequence only, the later sequences still run; the
\* test passes exactly when all 9 events were sent.
C27_FirstContactDetection ==
    StageDone("First Contact Detection")
        => /\ \A k, l \in DOMAIN v_sent : k < l => v_sent[k].id <= v_sent[l].id
           /\ \A k \in DOMAIN v_sent : v_sent[k].id \in 0 .. 2
           /\ \A q \in DOMAIN test_sequences : RunOfSequence(SequenceWrites(q), q)
           /\ v_f.passed <=> (Len(v_sent) = 9 /\ AllWritten)

\* the first send of sequence 1 failed, sequences 2 and 3 were sent in full,
\* and the test failed
C27_Witness ==
    /\ StageDone("First Contact Detection")
    /\ Len(v_sent) = 7
    /\ \A k \in DOMAIN v_sent : v_sent[k].ok <=> k # 1
    /\ ~v_f.passed

\* all 9 events were sent and the test passed
C27_Passes ==
    /\ StageDone("First Contact Detection")
    /\ Len(v_sent) = 9
    /\ AllWritten
    /\ v_f.passed

\* ---- a failed connect ------------------------------------------------------------

\* TactHostSimulator.connect has returned False
ConnectFailed == g.kind = "connect" /\ pc = "idle" /\ result = "False"

\* C28: after a connect that returned False, is_connected is False and the
\* connection the call opened, if any, is no longer open, also when the failure
\* was an error while reading a handshake line.
C28_FailedConnectLeavesNothing ==
    ConnectFailed => /\ ~is_connected
                     /\ g.opened => serial_connection # "open"

\* a first connect that failed before anything was opened does leave nothing
FailedBeforeOpen ==
    (ConnectFailed /\ ~g.opened /\ g.overlap = 0 /\ serial_connection = "None")
        => ~is_connected

\* the handshake of a first connect raised: False was returned, the port is
\* open and is_connected is set, so that send_touch_event will write
C28_HalfOpen ==
    /\ ConnectFailed /\ g.opened /\ g.overlap = 0
    /\ is_connected /\ serial_connection = "open"

\* ---- what a validation run leaves behind ---------------------------------------

\* a complete run: connect succeeded and every write went through
CleanRun == RunEnded /\ v_faults = 0

\* C29: after a complete validation run in which every write succeeded, the
\* last command written for each of the actuators 0 .. 3 has depth 0.00.
C29_AllActuatorsReleased ==
    CleanRun => \A a \in DOMAIN v_link : v_link[a].seen /\ v_link[a].depth = 0

\* what the run leaves: actuator 2 at 0.50, from the timing test's command
\* i = 18, the others at 0.00
Actuator2LeftActive ==
    CleanRun => /\ v_link[2].depth = 50
                /\ \A a \in DOMAIN v_link \ {2} : v_link[a].depth = 0

\* such a run has ended and the connection is closed
C29_RunClosed == CleanRun /\ v_run = "True" /\ v_closed /\ v_link[2].depth = 50

\* ---- first contact and depth ---------------------------------------------------

\* the lines written so far that carry the first contact flag have a depth
\* above 0.00
ContactHasDepth == \A i \in DOMAIN wire : wire[i].flag = 1 => wire[i].depth > 0

\* C30: a gesture called with an intensity of at least 0.01 never sends the
\* first contact flag together with the depth 0.00.
C30_FirstContactHasDepth ==
    (g.kind \in Gestures /\ g.intensity >= 10) => ContactHasDepth

\* stroke, pat and poke keep to it
OthersHaveDepth ==
    (g.kind \in {"stroke", "pat", "poke"} /\ g.intensity >= 10) => ContactHasDepth

\* tick 0 of a squeeze at 0.7: the four lines m,0.00,1
C30_SqueezeOpening ==
    /\ g.kind = "squeeze" /\ g.intensity = 700 /\ Len(wire) >= num_motors
    /\ \A m \in 0 .. num_motors - 1 :
          wire[m + 1] = [id |-> m, depth |-> 0, flag |-> 1]

\* ---- sends without a session ---------------------------------------------------

\* States known to lie before the first successful connect or between a
\* disconnect and the next successful connect: is_connected is only ever set
\* by connect and cleared by disconnect, and a connect that returned False
\* after opening the port while no connection was open is not a successful one.
NoSession ==
    \/ ~is_connected
    \/ ConnectFailed /\ g.opened /\ g.overlap = 0

\* the step is a direct call of send_touch_event
DirectSend == pc = "idle" /\ g'.kind = "manual"

\* the call window of the step's end holds no written line and no call that
\* returned True
NothingSent == wire' = <<>> /\ \A i \in DOMAIN sent' : ~sent'[i].ret

\* C31: before the first successful connect, and after a disconnect until the
\* next successful connect, every send_touch_event call returns False and
\* writes nothing, and so does every send of a gesture.
C31_NoWriteWithoutSession ==
    [][/\ (DirectSend /\ NoSession) => (NothingSent /\ result' = "False")
       /\ (pc \in Playing /\ ~is_connected) => NothingSent]_vars

\* what the guard of send_touch_event gives: nothing is written while
\* is_connected is False
GuardedByFlag ==
    [][/\ (DirectSend /\ ~is_connected) => (NothingSent /\ result' = "False")
       /\ (pc \in Playing /\ ~is_connected) => NothingSent]_vars

\* a gesture has run to its end on a simulator that is not connected
C31_GestureUnsent ==
    /\ Returned("stroke") /\ ~is_connected /\ serial_connection = "closed"
    /\ Len(sent) > num_motors /\ wire = <<>>

\* ---- order of the events of stroke and squeeze --------------------------------

\* the calls of tick t, and the release calls, by their place in the window
CallsOfTick(t) == {i \in DOMAIN sent : ~sent[i].rel /\ sent[i].tick = t}
ReleaseCalls   == {i \in DOMAIN sent : sent[i].rel}

\* the calls at the places I name each actuator once, in ascending order
AscendingOnce(I) ==
    /\ \A i, j \in I : i < j => sent[i].id < sent[j].id
    /\ {sent[i].id : i \in I} = 0 .. num_motors - 1

\* C32: stroke and squeeze issue their events tick by tick, within a tick in
\* ascending actuator id with every actuator exactly once, and the release
\* events after the last tick, ascending as well.
C32_EventOrder ==
    g.kind \in {"stroke", "squeeze"}
        => /\ \A i, j \in DOMAIN sent :
                 i < j => /\ sent[i].tick <= sent[j].tick
                          /\ sent[i].rel => sent[j].rel
                          /\ (sent[i].tick = sent[j].tick /\ sent[i].rel = sent[j].rel)
                                => sent[i].id < sent[j].id
           /\ \A i \in DOMAIN sent : sent[i].id \in 0 .. num_motors - 1
           /\ \A t \in 0 .. g.step - 1 : AscendingOnce(CallsOfTick(t))
           /\ Returned(g.kind)
                 => /\ \A t \in 0 .. g.steps - 1 : AscendingOnce(CallsOfTick(t))
                    /\ AscendingOnce(ReleaseCalls)
                    /\ Len(sent) = (g.steps + 1) * num_motors

\* a squeeze of 3 ticks has returned: 0 1 2 3 three times, then the release
\* 0 1 2 3
C32_Witness ==
    /\ Returned("squeeze")
    /\ g.steps = 3
    /\ Len(sent) = 16
    /\ \A i \in DOMAIN sent :
          /\ sent[i].id = (i - 1) % num_motors
          /\ sent[i].tick = (i - 1) \div num_motors
          /\ sent[i].rel <=> i > 12

\* a stroke has been cancelled within its second tick
C32_PartialTick ==
    /\ pc = "interrupted" /\ g.kind = "stroke"
    /\ Len(sent) = num_motors + 2

====
